---- MODULE Spec2Model ----
(***************************************************************************)
(* The batching engine of src/batcher.js: createBatcher's closure state,   *)
(* calculateBatchSize / estimateProductSize over the real JSON text of the *)
(* products, sendBatch, addProduct, addProducts and flush, together with   *)
(* the external service that receives the serialized batches.              *)
(*                                                                         *)
(* A product is a JavaScript string value, held as a sequence of UTF-16    *)
(* characters.  JSON.stringify and Buffer.byteLength are computed on the   *)
(* characters: a double quote or a backslash is escaped to two characters, *)
(* a non-ASCII character takes two bytes in UTF-8.                         *)
(***************************************************************************)
EXTENDS Integers, Sequences, FiniteSets, TLC

\* ------------------------------------------------------------------ bounds
\* Number of products handed to the batcher over its lifetime.
MaxProducts == 5
\* Longest array handed to one addProducts call.
MaxCall == 2
\* Number of products handed to a batcher whose service may throw.
MaxRaiseProducts == 3
\* Number of products handed to a batcher by the caller of a long feed.
MaxLongProducts == 202

\* ------------------------------------------------------------- characters
DQ == "\""
BS == "\\"
\* U+00E9, a character of two bytes in UTF-8.
EAcute == "U+00E9"

RECURSIVE repeat(_, _)
\* String.prototype.repeat, as the tests use it to build descriptions.
repeat(c, n) == IF n = 0 THEN <<>> ELSE <<c>> \o repeat(c, n - 1)

\* The products a caller may add: the empty string (2 bytes of JSON), a
\* string of a two-byte character and a backslash (6 bytes of JSON) and a
\* long string with an escaped quote (12 bytes of JSON).
Products == { <<>>, <<EAcute, BS>>, <<DQ>> \o repeat("a", 8) }

\* maxSizeBytes = maxSizeMB * ONE_MEGA_BYTE; the caps a caller may configure.
\* Under 11 the long product is oversized on its own; under 13 it is within
\* the cap on its own but not inside the brackets of a batch.
MaxSizeChoices == {11, 13}

\* ------------------------------------------------------------------- JSON
\* JSON.stringify's escaping of one character of a string.
QuoteChar(c) == IF c = DQ \/ c = BS THEN <<BS, c>> ELSE <<c>>

RECURSIVE QuoteChars(_)
QuoteChars(str) ==
    IF str = <<>> THEN <<>> ELSE QuoteChar(Head(str)) \o QuoteChars(Tail(str))

\* JSON.stringify(product)
JSONstringify(product) == <<DQ>> \o QuoteChars(product) \o <<DQ>>

RECURSIVE JoinElements(_)
\* The elements of a non-empty array, each as JSON, with a comma between
\* consecutive ones (joined by halves, which keeps the evaluation shallow).
JoinElements(products) ==
    IF Len(products) = 1 THEN JSONstringify(products[1])
    ELSE LET half == Len(products) \div 2
         IN JoinElements(SubSeq(products, 1, half)) \o <<",">>
              \o JoinElements(SubSeq(products, half + 1, Len(products)))

\* JSON.stringify(products), products an array
JSONstringifyArray(products) ==
    IF products = <<>> THEN <<"[", "]">>
    ELSE <<"[">> \o JoinElements(products) \o <<"]">>

\* Buffer.byteLength(json, "utf8"): one byte per character, and a second
\* one for each two-byte character.
byteLength(json) ==
    Len(json) + Cardinality({ i \in DOMAIN json : json[i] = EAcute })

\* ------------------------------------------------------------------ state
VARIABLES
    maxSizeBytes,            \* the cap of this batcher
    currentBatch,            \* products of the batch in progress
    currentBatchSize,        \* running size of the batch in progress
    estimatesInARow,         \* insertions that set currentBatchSize from the
                             \* estimate since it was last set otherwise
    totalProductsProcessed,
    totalBatchesSent,
    totalSizeProcessed,
    totalFullBatchesSize,
    fullBatchCount,
    calls,                   \* externalService.call's invocations, in order
    raisesOn,                \* invocation numbers at which the service throws
    summary,                 \* what the last printSummary reported
    added,                   \* every product passed to addProduct so far
    lastOp                   \* the caller's last call: its name, its argument,
                             \* the service invocations it made, whether it threw

batcherVars == <<currentBatch, currentBatchSize, totalProductsProcessed,
                 totalBatchesSent, totalSizeProcessed, totalFullBatchesSize,
                 fullBatchCount>>

vars == <<maxSizeBytes, currentBatch, currentBatchSize, estimatesInARow,
          totalProductsProcessed, totalBatchesSent, totalSizeProcessed,
          totalFullBatchesSize, fullBatchCount, calls, raisesOn, summary,
          added, lastOp>>

\* The closure of createBatcher and the service's log, as one value the
\* functions below take and return; thrown is set when an exception is
\* propagating.
Closure ==
    [ currentBatch |-> currentBatch,
      currentBatchSize |-> currentBatchSize,
      estimatesInARow |-> estimatesInARow,
      totalProductsProcessed |-> totalProductsProcessed,
      totalBatchesSent |-> totalBatchesSent,
      totalSizeProcessed |-> totalSizeProcessed,
      totalFullBatchesSize |-> totalFullBatchesSize,
      fullBatchCount |-> fullBatchCount,
      calls |-> calls,
      thrown |-> FALSE ]

\* ------------------------------------------------------- size estimation
\* calculateBatchSize counting the elements and commas, not the brackets.
calculateBatchSize_noBrackets(products) ==
    IF Len(products) = 0 THEN 2
    ELSE byteLength(JoinElements(products))

\* calculateBatchSize: the size of the entire batch in bytes.
calculateBatchSize(products) ==
    IF Len(products) = 0 THEN 2
    ELSE byteLength(JSONstringifyArray(products))

\* estimateProductSize without the comma separator.
estimateProductSize_noSeparator(s, product) ==
    byteLength(JSONstringify(product))

\* estimateProductSize: the size a product would add to the current batch.
estimateProductSize(s, product) ==
    LET productSize == byteLength(JSONstringify(product))
        separator == IF Len(s.currentBatch) > 0 THEN 1 ELSE 0
    IN productSize + separator

\* ------------------------------------------------------- external service
\* externalService.call(batchJSON): the invocation is logged; it throws when
\* its invocation number is one of raisesOn.
externalServiceCall(s, batchJSON) ==
    [s EXCEPT !.calls = Append(@, batchJSON),
              !.thrown = (Len(s.calls) + 1) \in raisesOn]

\* The full-batch test with "at least" for "more than".
IsFull_atLeast(batchSize) == batchSize * 100 >= maxSizeBytes * 95

\* batchSize > maxSizeBytes * 0.95
IsFull(batchSize) == batchSize * 100 > maxSizeBytes * 95

\* --------------------------------------------------------------- sendBatch
\* sendBatch that counts one product per batch sent.
countAndCall_countsOneProduct(s) ==
    LET batchJSON == JSONstringifyArray(s.currentBatch)
        batchSize == byteLength(batchJSON)
        counted ==
            [s EXCEPT
                !.totalProductsProcessed = @ + 1,
                !.totalBatchesSent = @ + 1,
                !.totalSizeProcessed = @ + batchSize,
                !.totalFullBatchesSize =
                    IF IsFull(batchSize) THEN @ + batchSize ELSE @,
                !.fullBatchCount =
                    IF IsFull(batchSize) THEN @ + 1 ELSE @]
    IN externalServiceCall(counted, batchJSON)

\* sendBatch that updates the statistics once the service call has returned.
countAndCall_countsAfterCall(s) ==
    LET batchJSON == JSONstringifyArray(s.currentBatch)
        batchSize == byteLength(batchJSON)
        sent == externalServiceCall(s, batchJSON)
    IN IF sent.thrown THEN sent
       ELSE [sent EXCEPT
                !.totalProductsProcessed = @ + Len(s.currentBatch),
                !.totalBatchesSent = @ + 1,
                !.totalSizeProcessed = @ + batchSize,
                !.totalFullBatchesSize =
                    IF IsFull(batchSize) THEN @ + batchSize ELSE @,
                !.fullBatchCount =
                    IF IsFull(batchSize) THEN @ + 1 ELSE @]

\* sendBatch from the serialization to the service call: the statistics are
\* updated, then the batch is handed to the service.
countAndCall(s) ==
    LET batchJSON == JSONstringifyArray(s.currentBatch)
        batchSize == byteLength(batchJSON)
        counted ==
            [s EXCEPT
                !.totalProductsProcessed = @ + Len(s.currentBatch),
                !.totalBatchesSent = @ + 1,
                !.totalSizeProcessed = @ + batchSize,
                !.totalFullBatchesSize =
                    IF IsFull(batchSize) THEN @ + batchSize ELSE @,
                !.fullBatchCount =
                    IF IsFull(batchSize) THEN @ + 1 ELSE @]
    IN externalServiceCall(counted, batchJSON)

\* "Reset for next batch", reached only when the service call returned.
resetBatch(sent) ==
    IF sent.thrown THEN sent
    ELSE [sent EXCEPT !.currentBatch = <<>>, !.currentBatchSize = 0,
                      !.estimatesInARow = 0]

\* sendBatch without the early return on an empty batch.
sendBatch_noEmptyGuard(s) == resetBatch(countAndCall(s))

\* sendBatch that keeps the batch after sending it.
sendBatch_noReset(s) ==
    IF Len(s.currentBatch) = 0 THEN s ELSE countAndCall(s)

\* sendBatch: sends the current batch to the external service and resets.
\* The statistics are updated before the call; the reset follows it, so a
\* throwing service leaves the batch in place.
sendBatch(s) ==
    IF Len(s.currentBatch) = 0 THEN s ELSE resetBatch(countAndCall(s))

\* -------------------------------------------------------------- addProduct
\* The append branch counting the product as processed when it is added.
pushProduct_countsProduct(s, product, estimatedNewSize) ==
    LET pushed == Append(s.currentBatch, product)
    IN [s EXCEPT
          !.currentBatch = pushed,
          !.totalProductsProcessed = @ + 1,
          !.currentBatchSize =
              IF Len(pushed) <= 3 \/ Len(pushed) % 100 = 0
              THEN calculateBatchSize(pushed)
              ELSE estimatedNewSize,
          !.estimatesInARow =
              IF Len(pushed) <= 3 \/ Len(pushed) % 100 = 0 THEN 0 ELSE @ + 1]

\* The append branch recalculating for the first products only.
pushProduct_noPeriodic(s, product, estimatedNewSize) ==
    LET pushed == Append(s.currentBatch, product)
    IN [s EXCEPT
          !.currentBatch = pushed,
          !.currentBatchSize =
              IF Len(pushed) <= 3
              THEN calculateBatchSize(pushed)
              ELSE estimatedNewSize,
          !.estimatesInARow = IF Len(pushed) <= 3 THEN 0 ELSE @ + 1]

\* The append branch of addProduct, with the recalibration of the size.
pushProduct(s, product, estimatedNewSize) ==
    LET pushed == Append(s.currentBatch, product)
    IN [s EXCEPT
          !.currentBatch = pushed,
          !.currentBatchSize =
              IF Len(pushed) <= 3 \/ Len(pushed) % 100 = 0
              THEN calculateBatchSize(pushed)
              ELSE estimatedNewSize,
          !.estimatesInARow =
              IF Len(pushed) <= 3 \/ Len(pushed) % 100 = 0 THEN 0 ELSE @ + 1]

\* The close branch of addProduct: send, then start a batch with startWith.
closeAndStart(s, startWith) ==
    LET sent == sendBatch(s)
    IN IF sent.thrown THEN sent
       ELSE [sent EXCEPT
                !.currentBatch = startWith,
                !.currentBatchSize = calculateBatchSize(startWith),
                !.estimatesInARow = 0]

\* addProduct that starts the new batch empty, losing the product.
addProduct_dropsOnClose(s, product) ==
    LET estimatedNewSize == s.currentBatchSize + estimateProductSize(s, product)
    IN IF estimatedNewSize > maxSizeBytes /\ Len(s.currentBatch) > 0
       THEN closeAndStart(s, <<>>)
       ELSE pushProduct(s, product, estimatedNewSize)

\* addProduct that refuses a product larger than the cap.
addProduct_rejectsOversized(s, product) ==
    LET estimatedNewSize == s.currentBatchSize + estimateProductSize(s, product)
    IN IF byteLength(JSONstringify(product)) > maxSizeBytes THEN s
       ELSE IF estimatedNewSize > maxSizeBytes /\ Len(s.currentBatch) > 0
            THEN closeAndStart(s, <<product>>)
            ELSE pushProduct(s, product, estimatedNewSize)

\* addProduct that closes the batch already when the cap is reached.
addProduct_closesAtCap(s, product) ==
    LET estimatedNewSize == s.currentBatchSize + estimateProductSize(s, product)
    IN IF estimatedNewSize >= maxSizeBytes /\ Len(s.currentBatch) > 0
       THEN closeAndStart(s, <<product>>)
       ELSE pushProduct(s, product, estimatedNewSize)

\* addProduct that never closes a batch.
addProduct_neverCloses(s, product) ==
    pushProduct(s, product, s.currentBatchSize + estimateProductSize(s, product))

\* addProduct: adds a product to the current batch; sends the batch first
\* when the size limit would be exceeded.
addProduct(s, product) ==
    LET estimatedAddition == estimateProductSize(s, product)
        estimatedNewSize == s.currentBatchSize + estimatedAddition
    IN IF estimatedNewSize > maxSizeBytes /\ Len(s.currentBatch) > 0
       THEN closeAndStart(s, <<product>>)
       ELSE pushProduct(s, product, estimatedNewSize)

\* ------------------------------------------------------------- addProducts
RECURSIVE addProductsLoop(_, _, _)
\* The for-of loop of addProducts: processedCount products are done.
addProductsLoop(s, products, processedCount) ==
    IF processedCount = Len(products) \/ s.thrown THEN s
    ELSE addProductsLoop(addProduct(s, products[processedCount + 1]),
                         products, processedCount + 1)

\* addProducts whose loop stops one product short.
addProducts_skipsLast(s, products) ==
    IF products = <<>> THEN s
    ELSE addProductsLoop(s, SubSeq(products, 1, Len(products) - 1), 0)

\* addProducts: adds multiple products (the progress lines are console
\* output only).
addProducts(s, products) == addProductsLoop(s, products, 0)

\* ------------------------------------------------------------------- flush
\* A JavaScript division, as the exact fraction it computes; with den = 0 it
\* yields NaN or Infinity.
Divide(n, d) == [num |-> n, den |-> d]

\* printSummary that shows the full batches whether or not there are any.
printSummary_unguardedFullAvg(s) ==
    [ totalProductsProcessed |-> s.totalProductsProcessed,
      totalBatchesSent |-> s.totalBatchesSent,
      totalSizeProcessed |-> s.totalSizeProcessed ]
    @@
    (IF s.totalBatchesSent > 0
     THEN [ avgBatchSize |-> Divide(s.totalSizeProcessed, s.totalBatchesSent),
            avgProductsPerBatch |->
                Divide(s.totalProductsProcessed, s.totalBatchesSent),
            overallUtilization |->
                Divide(s.totalSizeProcessed * 100,
                       s.totalBatchesSent * maxSizeBytes),
            fullBatchAvg |->
                Divide(s.totalFullBatchesSize, s.fullBatchCount) ]
          @@
          (IF s.totalBatchesSent - s.fullBatchCount > 0
           THEN [ partialBatches |-> s.totalBatchesSent - s.fullBatchCount,
                  partialSize |->
                      s.totalSizeProcessed - s.totalFullBatchesSize ]
           ELSE <<>>)
     ELSE [ noBatchesSent |-> TRUE ])

\* printSummary: the lines it prints, by name, with the values they show
\* (sizes in bytes, as exact fractions).
printSummary(s) ==
    [ totalProductsProcessed |-> s.totalProductsProcessed,
      totalBatchesSent |-> s.totalBatchesSent,
      totalSizeProcessed |-> s.totalSizeProcessed ]
    @@
    (IF s.totalBatchesSent > 0
     THEN [ avgBatchSize |-> Divide(s.totalSizeProcessed, s.totalBatchesSent),
            avgProductsPerBatch |->
                Divide(s.totalProductsProcessed, s.totalBatchesSent),
            overallUtilization |->
                Divide(s.totalSizeProcessed * 100,
                       s.totalBatchesSent * maxSizeBytes) ]
          @@
          (IF s.fullBatchCount > 0
           THEN [ fullBatchAvg |->
                      Divide(s.totalFullBatchesSize, s.fullBatchCount) ]
           ELSE <<>>)
          @@
          (IF s.totalBatchesSent - s.fullBatchCount > 0
           THEN [ partialBatches |-> s.totalBatchesSent - s.fullBatchCount,
                  partialSize |->
                      s.totalSizeProcessed - s.totalFullBatchesSize ]
           ELSE <<>>)
     ELSE [ noBatchesSent |-> TRUE ])

\* flush that only prints the summary.
flush_skipsSend(s) == s

\* flush: sends any remaining products, then prints the summary.
flush(s) == sendBatch(s)

\* ----------------------------------------------------------------- actions
\* createBatcher(maxSizeMB, externalService) with a service that never throws.
Init ==
    /\ maxSizeBytes \in MaxSizeChoices
    /\ currentBatch = <<>>
    /\ currentBatchSize = 0
    /\ estimatesInARow = 0
    /\ totalProductsProcessed = 0
    /\ totalBatchesSent = 0
    /\ totalSizeProcessed = 0
    /\ totalFullBatchesSize = 0
    /\ fullBatchCount = 0
    /\ calls = <<>>
    /\ raisesOn = {}
    /\ summary = <<>>
    /\ added = <<>>
    /\ lastOp = [op |-> "createBatcher", products |-> <<>>, sinkCalls |-> 0,
                 thrown |-> FALSE]

\* The closure and the service's log after a call that ended in state t.
Install(t) ==
    /\ currentBatch' = t.currentBatch
    /\ currentBatchSize' = t.currentBatchSize
    /\ estimatesInARow' = t.estimatesInARow
    /\ totalProductsProcessed' = t.totalProductsProcessed
    /\ totalBatchesSent' = t.totalBatchesSent
    /\ totalSizeProcessed' = t.totalSizeProcessed
    /\ totalFullBatchesSize' = t.totalFullBatchesSize
    /\ fullBatchCount' = t.fullBatchCount
    /\ calls' = t.calls

\* The arrays a caller may hand to addProducts.
ProductArrays == UNION { [1..n -> Products] : n \in 0..MaxCall }

\* batcher.addProduct(product), by a caller that adds at most limit products.
AddProductWithin(product, limit) ==
    /\ Len(added) < limit
    /\ LET t == addProduct(Closure, product)
       IN /\ Install(t)
          /\ lastOp' = [op |-> "addProduct", products |-> <<product>>,
                        sinkCalls |-> Len(t.calls) - Len(calls),
                        thrown |-> t.thrown]
    /\ added' = Append(added, product)
    /\ UNCHANGED <<maxSizeBytes, raisesOn, summary>>

\* batcher.addProduct(product)
AddProduct(product) == AddProductWithin(product, MaxProducts)

\* batcher.addProducts(products), by a caller that adds at most limit products.
AddProductsWithin(products, limit) ==
    /\ Len(added) + Len(products) <= limit
    /\ LET t == addProducts(Closure, products)
       IN /\ Install(t)
          /\ lastOp' = [op |-> "addProducts", products |-> products,
                        sinkCalls |-> Len(t.calls) - Len(calls),
                        thrown |-> t.thrown]
    /\ added' = added \o products
    /\ UNCHANGED <<maxSizeBytes, raisesOn, summary>>

\* batcher.addProducts(products)
AddProducts(products) == AddProductsWithin(products, MaxProducts)

\* batcher.flush()
Flush ==
    /\ LET t == flush(Closure)
       IN /\ Install(t)
          /\ summary' = IF t.thrown THEN summary ELSE printSummary(t)
          /\ lastOp' = [op |-> "flush", products |-> <<>>,
                        sinkCalls |-> Len(t.calls) - Len(calls),
                        thrown |-> t.thrown]
    /\ UNCHANGED <<maxSizeBytes, raisesOn, added>>

Next ==
    \/ \E product \in Products : AddProduct(product)
    \/ \E products \in ProductArrays : AddProducts(products)
    \/ Flush

Spec == Init /\ [][Next]_vars

\* The invocations at which a failing service throws: the first, the second,
\* or both.
RaiseChoices == { {1}, {2}, {1, 2} }

\* createBatcher with a service that throws at some of its invocations.  The
\* caller goes on calling after an error, as the entry point does when it
\* flushes in a finally block.
InitRaise ==
    /\ maxSizeBytes \in MaxSizeChoices
    /\ currentBatch = <<>>
    /\ currentBatchSize = 0
    /\ estimatesInARow = 0
    /\ totalProductsProcessed = 0
    /\ totalBatchesSent = 0
    /\ totalSizeProcessed = 0
    /\ totalFullBatchesSize = 0
    /\ fullBatchCount = 0
    /\ calls = <<>>
    /\ raisesOn \in RaiseChoices
    /\ summary = <<>>
    /\ added = <<>>
    /\ lastOp = [op |-> "createBatcher", products |-> <<>>, sinkCalls |-> 0,
                 thrown |-> FALSE]

\* Caps whose 95% is a whole number of bytes: under 40 a batch may be of
\* exactly 38 bytes.
BoundaryCapChoices == {40}

\* createBatcher with such a cap and a service that never throws.
InitBoundary ==
    /\ maxSizeBytes \in BoundaryCapChoices
    /\ currentBatch = <<>>
    /\ currentBatchSize = 0
    /\ estimatesInARow = 0
    /\ totalProductsProcessed = 0
    /\ totalBatchesSent = 0
    /\ totalSizeProcessed = 0
    /\ totalFullBatchesSize = 0
    /\ fullBatchCount = 0
    /\ calls = <<>>
    /\ raisesOn = {}
    /\ summary = <<>>
    /\ added = <<>>
    /\ lastOp = [op |-> "createBatcher", products |-> <<>>, sinkCalls |-> 0,
                 thrown |-> FALSE]

SpecBoundary == InitBoundary /\ [][Next]_vars

\* A long feed of small products: the empty string, 3 bytes with its comma.
LongProducts == { <<>> }

\* A cap that a batch of 200 such products fills to the byte (601 bytes), so
\* that the 201st closes it.
LongCapChoices == { 1 + 3 * 200 }

\* createBatcher with such a cap and a service that never throws.
InitLong ==
    /\ maxSizeBytes \in LongCapChoices
    /\ currentBatch = <<>>
    /\ currentBatchSize = 0
    /\ estimatesInARow = 0
    /\ totalProductsProcessed = 0
    /\ totalBatchesSent = 0
    /\ totalSizeProcessed = 0
    /\ totalFullBatchesSize = 0
    /\ fullBatchCount = 0
    /\ calls = <<>>
    /\ raisesOn = {}
    /\ summary = <<>>
    /\ added = <<>>
    /\ lastOp = [op |-> "createBatcher", products |-> <<>>, sinkCalls |-> 0,
                 thrown |-> FALSE]

\* The caller adds one product after the other.
NextLong ==
    \E product \in LongProducts : AddProductWithin(product, MaxLongProducts)

SpecLong == InitLong /\ [][NextLong]_vars

\* The calls of a caller of the failing service.
NextRaise ==
    \/ \E product \in Products : AddProductWithin(product, MaxRaiseProducts)
    \/ \E products \in ProductArrays :
          AddProductsWithin(products, MaxRaiseProducts)
    \/ Flush

SpecRaise == InitRaise /\ [][NextRaise]_vars

\* ------------------------------------------------- reading the payloads
RECURSIVE ParseElements(_, _, _, _, _)
\* JSON.parse of an array of strings, from character i on: cur is the string
\* being read when inStr, acc the elements read so far.
ParseElements(json, i, cur, inStr, acc) ==
    IF i > Len(json) THEN acc
    ELSE IF inStr
         THEN IF json[i] = BS
              THEN ParseElements(json, i + 2, Append(cur, json[i + 1]), TRUE, acc)
              ELSE IF json[i] = DQ
                   THEN ParseElements(json, i + 1, <<>>, FALSE, Append(acc, cur))
                   ELSE ParseElements(json, i + 1, Append(cur, json[i]), TRUE, acc)
         ELSE IF json[i] = DQ
              THEN ParseElements(json, i + 1, <<>>, TRUE, acc)
              ELSE IF json[i] = "]" THEN acc
                   ELSE ParseElements(json, i + 1, cur, FALSE, acc)

\* JSON.parse(call[0]), as the tests read a batch back from the mock's calls.
JSONparse(json) == ParseElements(json, 2, <<>>, FALSE, <<>>)

\* The batches handed to the service, in emission order.
SentBatches == [i \in 1..Len(calls) |-> JSONparse(calls[i])]

RECURSIVE Flatten(_)
\* allSentProducts.push(...batch) over the batches.
Flatten(batches) ==
    IF batches = <<>> THEN <<>> ELSE Head(batches) \o Flatten(Tail(batches))

RECURSIVE SumLen(_)
\* totalProducts += batch.length over the batches.
SumLen(batches) ==
    IF batches = <<>> THEN 0 ELSE Len(Head(batches)) + SumLen(Tail(batches))

\* A product's own serialized size, without the enclosing array brackets.
OwnSize(product) == byteLength(JSONstringify(product))

RECURSIVE SumOwnSizes(_)
SumOwnSizes(products) ==
    IF products = <<>> THEN 0
    ELSE OwnSize(Head(products)) + SumOwnSizes(Tail(products))

\* 2 bracket bytes + record sizes + one comma between consecutive records.
ExactSize(products) == 2 + SumOwnSizes(products) + (Len(products) - 1)

\* The last call returned normally.
Returned(op) == lastOp.op = op /\ ~lastOp.thrown

\* ------------------------------------------------------------------ claims

\* C1. Order preservation: in every reachable state (service never throwing)
\* the batches handed to the service, concatenated in emission order and
\* followed by the batch in progress, are exactly the products added so far.
OrderPreserved ==
    raisesOn = {} => Flatten(SentBatches) \o currentBatch = added

\* After a final flush the emitted batches alone are the input, in order.
OrderPreservedWitness ==
    /\ Returned("flush")
    /\ Len(calls) >= 3
    /\ Len(added) = MaxProducts
    /\ Flatten(SentBatches) = added

\* C2. Size bound, general case: every batch handed to the service that holds
\* more than one record has exact serialized size (brackets, records and
\* commas) at most maxSizeBytes.
SizeBoundGeneral ==
    \A i \in 1..Len(calls) :
        Len(SentBatches[i]) > 1 =>
            /\ byteLength(calls[i]) = ExactSize(SentBatches[i])
            /\ ExactSize(SentBatches[i]) <= maxSizeBytes

\* A batch of four records, the fourth added on the incremental estimate,
\* that fills the cap to the byte and was closed by the next addProduct.
SizeBoundGeneralWitness ==
    \E i \in 1..Len(calls) :
        /\ Len(SentBatches[i]) = 4
        /\ byteLength(calls[i]) = maxSizeBytes
        /\ currentBatch # <<>>

\* C3 as stated: every batch over the cap holds exactly one record, and that
\* record's own serialized size (without the brackets) exceeds maxSizeBytes.
OnlyOversizedExceeds ==
    \A i \in 1..Len(calls) :
        byteLength(calls[i]) > maxSizeBytes =>
            /\ Len(SentBatches[i]) = 1
            /\ OwnSize(SentBatches[i][1]) > maxSizeBytes

\* C3, amended. Every batch over the cap holds exactly one record, and that
\* record does not fit the cap inside the two array brackets: its own
\* serialized size exceeds maxSizeBytes - 2.  So when every record's own size
\* plus 2 is at most maxSizeBytes, no emitted batch exceeds maxSizeBytes.
OnlyUnfittableExceeds ==
    /\ \A i \in 1..Len(calls) :
          byteLength(calls[i]) > maxSizeBytes =>
              /\ Len(SentBatches[i]) = 1
              /\ OwnSize(SentBatches[i][1]) + 2 > maxSizeBytes
    /\ (\A k \in 1..Len(added) : OwnSize(added[k]) + 2 <= maxSizeBytes)
          => \A i \in 1..Len(calls) : byteLength(calls[i]) <= maxSizeBytes

\* A batch over the cap whose single record is itself within the cap, sent
\* between two other batches.
OnlyUnfittableExceedsWitness ==
    \E i \in 2..(Len(calls) - 1) :
        /\ byteLength(calls[i]) > maxSizeBytes
        /\ Len(SentBatches[i]) = 1
        /\ OwnSize(SentBatches[i][1]) <= maxSizeBytes

\* C4. Completeness: once a flush has returned, the record counts of the
\* batches handed to the service add up to the number of records added.
Completeness ==
    Returned("flush") => SumLen(SentBatches) = Len(added)

CompletenessWitness ==
    /\ Returned("flush")
    /\ Len(added) = MaxProducts
    /\ Len(calls) >= 2
    /\ lastOp.sinkCalls = 1

\* C5. No empty emission: the service is never invoked with a batch of zero
\* records.
NoEmptyEmission ==
    \A i \in 1..Len(calls) : calls[i] # <<"[", "]">> /\ SentBatches[i] # <<>>

\* A flush with nothing pending (fresh accumulator, repeated flush, or after
\* addProducts of an empty array) that made no service call.
NoEmptyEmissionWitness ==
    /\ Returned("flush")
    /\ lastOp.sinkCalls = 0
    /\ currentBatch = <<>>
    /\ added = <<>>

\* C6. Idempotent flush: a flush that directly follows a flush that returned
\* invokes the service zero times and leaves the batch state and every
\* statistics counter unchanged; the two flushes together invoke the service
\* at most once.
IdempotentFlush ==
    [][ (Returned("flush") /\ lastOp'.op = "flush")
          => /\ lastOp'.sinkCalls = 0
             /\ lastOp.sinkCalls + lastOp'.sinkCalls <= 1
             /\ calls' = calls
             /\ batcherVars' = batcherVars
             /\ ~lastOp'.thrown ]_vars

\* A flush that found nothing pending although batches had been sent: the
\* batch was emptied by an earlier flush, and nothing was added in between.
IdempotentFlushWitness ==
    /\ Returned("flush")
    /\ lastOp.sinkCalls = 0
    /\ calls # <<>>
    /\ added # <<>>
    /\ currentBatch = <<>>

\* The elements of a batch.
Range(seq) == { seq[k] : k \in 1..Len(seq) }

\* C7. Oversized single record: once a flush has returned, every record whose
\* own serialized size exceeds maxSizeBytes has been handed to the service
\* exactly once per time it was added, each time in a batch that holds only
\* that record.
OversizedAlone ==
    Returned("flush") =>
        \A r \in Products :
            OwnSize(r) > maxSizeBytes =>
                /\ \A i \in 1..Len(calls) :
                      r \in Range(SentBatches[i]) => SentBatches[i] = <<r>>
                /\ Cardinality({ i \in 1..Len(calls) : SentBatches[i] = <<r>> })
                      = Cardinality({ k \in 1..Len(added) : added[k] = r })

\* An oversized record added between two other records, all flushed.
OversizedAloneWitness ==
    /\ Returned("flush")
    /\ \E k \in 2..(Len(added) - 1) :
          /\ OwnSize(added[k]) > maxSizeBytes
          /\ OwnSize(added[k - 1]) <= maxSizeBytes
          /\ OwnSize(added[k + 1]) <= maxSizeBytes

\* C8. Single batch when everything fits: when addProducts(input) on a new
\* accumulator is followed by flush, input is non-empty and its exact size as
\* one JSON array is at most maxSizeBytes, then no service call happened
\* before the flush and the flush makes exactly one, whose payload holds all
\* the input records in their order.
SingleBatchWhenFits ==
    [][ ( /\ Returned("addProducts")
          /\ lastOp.products = added
          /\ added # <<>>
          /\ calculateBatchSize(added) <= maxSizeBytes
          /\ lastOp'.op = "flush" )
          => /\ calls = <<>>
             /\ Len(calls') = 1
             /\ JSONparse(calls'[1]) = added
             /\ calls'[1] = JSONstringifyArray(added) ]_vars

\* The state after addProducts of two records that fill the cap to the byte
\* and the flush: one service call, holding both.
SingleBatchWhenFitsWitness ==
    /\ Returned("flush")
    /\ lastOp.sinkCalls = 1
    /\ Len(calls) = 1
    /\ Len(added) = 2
    /\ SentBatches[1] = added
    /\ byteLength(calls[1]) = maxSizeBytes

\* C9. Splitting when the input does not fit: when addProducts(input) on a
\* new accumulator is followed by flush, input has at least two records and
\* its exact size as one JSON array exceeds maxSizeBytes, then the service
\* has been invoked more than once.
SplitsWhenTooBig ==
    [][ ( /\ Returned("addProducts")
          /\ lastOp.products = added
          /\ Len(added) >= 2
          /\ calculateBatchSize(added) > maxSizeBytes
          /\ lastOp'.op = "flush" )
          => Len(calls') > 1 ]_vars

\* The state after addProducts of two records, each fitting a batch of its
\* own but not one batch together, and the flush: two service calls.
SplitsWhenTooBigWitness ==
    /\ Returned("flush")
    /\ lastOp.sinkCalls = 1
    /\ Len(added) = 2
    /\ \A k \in 1..2 : ExactSize(<<added[k]>>) <= maxSizeBytes
    /\ ExactSize(added) > maxSizeBytes
    /\ Len(calls) = 2

RECURSIVE OneByOne(_, _)
\* The caller's own loop: addProduct on each element in order.
OneByOne(s, products) ==
    IF products = <<>> THEN s
    ELSE OneByOne(addProduct(s, Head(products)), Tail(products))

\* C10. addProducts does not alter batching semantics: addProducts(seq) ends
\* with the same service payloads, current batch, currentSize and statistics
\* counters as addProduct on each element of seq in order; for an empty seq
\* it invokes the service zero times and changes nothing.
AddProductsIsEachInOrder ==
    [][ lastOp'.op = "addProducts"
          => /\ Closure' = OneByOne(Closure, lastOp'.products)
             /\ lastOp'.products = <<>>
                   => /\ lastOp'.sinkCalls = 0
                      /\ UNCHANGED <<batcherVars, calls>> ]_vars

\* An addProducts call of two records during which a batch was closed.
AddProductsIsEachInOrderWitness ==
    /\ Returned("addProducts")
    /\ Len(lastOp.products) = MaxCall
    /\ lastOp.sinkCalls >= 1
    /\ Len(currentBatch) = 1

\* C11 as stated. Sink failure leaves the batch state reset: after a call
\* that ended in the service's error, no records are pending and
\* currentBatchSize is 0.
ResetAfterSinkFailure ==
    lastOp.thrown => currentBatch = <<>> /\ currentBatchSize = 0

RECURSIVE SumBytes(_)
\* The byte lengths of payloads, added up.
SumBytes(payloads) ==
    IF payloads = <<>> THEN 0
    ELSE byteLength(Head(payloads)) + SumBytes(Tail(payloads))

\* The payloads among payloads that are full batches, in order.
FullOnes(payloads) == SelectSeq(payloads, LAMBDA json : IsFull(byteLength(json)))

\* The payloads the step at hand has handed to the service.
NewCalls == SubSeq(calls', Len(calls) + 1, Len(calls'))

\* C12. Sink failure is not caught and not rolled back: a call during which
\* the service throws ends in that error at the throwing invocation (no
\* catch, no retry, no further invocation), and the statistics count every
\* batch handed over during the call, the one that threw included: records,
\* batches, bytes, and the full-batch counters for the full ones.
SinkFailureCounted ==
    [][ /\ (\E n \in (Len(calls) + 1)..Len(calls') : n \in raisesOn)
              => lastOp'.thrown
        /\ lastOp'.thrown
              => /\ Len(calls') \in raisesOn
                 /\ \A n \in (Len(calls) + 1)..(Len(calls') - 1) :
                       n \notin raisesOn
                 /\ totalBatchesSent' = totalBatchesSent + Len(NewCalls)
                 /\ totalProductsProcessed' = totalProductsProcessed
                       + SumLen([i \in 1..Len(NewCalls) |-> JSONparse(NewCalls[i])])
                 /\ totalSizeProcessed' = totalSizeProcessed + SumBytes(NewCalls)
                 /\ fullBatchCount' = fullBatchCount + Len(FullOnes(NewCalls))
                 /\ totalFullBatchesSize' = totalFullBatchesSize
                       + SumBytes(FullOnes(NewCalls)) ]_vars

\* An addProduct whose close of a full two-record batch threw: the counters
\* hold that batch, the full-batch counters too.
SinkFailureCountedWitness ==
    /\ lastOp.op = "addProduct"
    /\ lastOp.thrown
    /\ Len(currentBatch) = 2
    /\ totalBatchesSent = Len(calls)
    /\ totalProductsProcessed = SumLen(SentBatches)
    /\ fullBatchCount >= 1
    /\ IsFull(byteLength(calls[Len(calls)]))

\* C13. Statistics match the emitted batches: with a service that never
\* throws, in every reachable state totalBatchesSent is the number of service
\* invocations, totalProductsProcessed the sum of the record counts of the
\* batches handed over, and totalSizeProcessed the sum of their byte sizes.
StatisticsMatchEmitted ==
    raisesOn = {} =>
        /\ totalBatchesSent = Len(calls)
        /\ totalProductsProcessed = SumLen(SentBatches)
        /\ totalSizeProcessed = SumBytes(calls)

\* Three batches of different record counts sent, a fourth in progress.
StatisticsMatchEmittedWitness ==
    /\ Len(calls) = 3
    /\ Len(SentBatches[1]) # Len(SentBatches[2])
    /\ totalProductsProcessed = 4
    /\ currentBatch # <<>>

\* Strictly more than 95% of maxSizeBytes (95% = 19/20).
Over95(size) == 20 * size > 19 * maxSizeBytes

\* C14. Full/partial classification: in every reachable state fullBatchCount
\* is the number of emitted batches of size strictly greater than 95% of
\* maxSizeBytes (a batch of exactly 95% is partial) and totalFullBatchesSize
\* the sum of their sizes; so neither exceeds its total and the derived
\* partial count and bytes are never negative.
FullClassification ==
    LET full == SelectSeq(calls, LAMBDA json : Over95(byteLength(json)))
    IN /\ fullBatchCount = Len(full)
       /\ totalFullBatchesSize = SumBytes(full)
       /\ fullBatchCount <= totalBatchesSent
       /\ totalFullBatchesSize <= totalSizeProcessed
       /\ totalBatchesSent - fullBatchCount >= 0
       /\ totalSizeProcessed - totalFullBatchesSize >= 0

\* A batch of exactly 95% of the cap has been sent and counted as partial.
FullClassificationWitness ==
    /\ Len(calls) = 1
    /\ 20 * byteLength(calls[1]) = 19 * maxSizeBytes
    /\ totalBatchesSent = 1
    /\ fullBatchCount = 0

\* The step at hand is an addProduct call.
IsAddProductStep ==
    lastOp'.op = "addProduct" /\ Len(added') = Len(added) + 1

\* C15. Statistics change only at batch-close time: an addProduct call that
\* closes no batch leaves every statistics counter unchanged and makes no
\* service call; a flush on an Empty accumulator leaves every counter and the
\* batch state unchanged; every batch close adds exactly 1 to
\* totalBatchesSent.
StatisticsOnlyAtClose ==
    [][ /\ (IsAddProductStep /\ currentBatch' = Append(currentBatch, added'[Len(added')]))
              => /\ calls' = calls
                 /\ UNCHANGED <<totalProductsProcessed, totalBatchesSent,
                                totalSizeProcessed, totalFullBatchesSize,
                                fullBatchCount>>
        /\ (lastOp'.op = "flush" /\ currentBatch = <<>>)
              => UNCHANGED <<batcherVars, calls>>
        /\ totalBatchesSent' = totalBatchesSent + Len(NewCalls) ]_vars

\* An addProduct that appended to a batch after batches had been sent.
StatisticsOnlyAtCloseWitness ==
    /\ Returned("addProduct")
    /\ lastOp.sinkCalls = 0
    /\ Len(currentBatch) >= 2
    /\ totalBatchesSent >= 1
    /\ totalProductsProcessed + Len(currentBatch) = Len(added)

\* C16. Batch-closing decision of addProduct: the call closes and emits the
\* current batch if and only if the batch is non-empty and currentBatchSize +
\* (record size + 1 separator byte) > maxSizeBytes; it closes at most one
\* batch; after it has returned the accumulator is Collecting with the record
\* as the last element of the current batch: the only element after a close,
\* with currentBatchSize the exact size of that one-element batch.
ClosingDecision ==
    [][ (IsAddProductStep /\ ~lastOp'.thrown) =>
          LET record == lastOp'.products[1]
              closes == /\ currentBatch # <<>>
                        /\ currentBatchSize + (OwnSize(record) + 1) > maxSizeBytes
          IN /\ closes <=> Len(NewCalls) = 1
             /\ Len(NewCalls) <= 1
             /\ currentBatch' # <<>>
             /\ currentBatch'[Len(currentBatch')] = record
             /\ closes => /\ NewCalls = <<JSONstringifyArray(currentBatch)>>
                          /\ currentBatch' = <<record>>
                          /\ currentBatchSize' = ExactSize(<<record>>)
             /\ ~closes => currentBatch' = Append(currentBatch, record) ]_vars

\* An addProduct that closed a batch filled to the byte and started a new one
\* with its record.
ClosingDecisionWitness ==
    /\ Returned("addProduct")
    /\ lastOp.sinkCalls = 1
    /\ currentBatch = lastOp.products
    /\ byteLength(calls[Len(calls)]) = maxSizeBytes
    /\ Len(SentBatches[Len(calls)]) >= 2

\* C17. Recalibration policy: after an insertion currentBatchSize is set by
\* exact recomputation exactly when the resulting batch length is 3 or less or
\* a multiple of 100, or a new batch was started after a close, and by the
\* incremental estimate at every other insertion; so at most 99 consecutive
\* insertions of a batch use the estimate between two exact recomputations.
RecalibrationPolicy ==
    [][ (IsAddProductStep /\ ~lastOp'.thrown) =>
          LET record == lastOp'.products[1]
              n == Len(currentBatch')
              exact == n <= 3 \/ n % 100 = 0 \/ Len(NewCalls) = 1
          IN /\ exact => /\ estimatesInARow' = 0
                         /\ currentBatchSize' = calculateBatchSize(currentBatch')
             /\ ~exact => /\ estimatesInARow' = estimatesInARow + 1
                          /\ currentBatchSize'
                                = currentBatchSize + (OwnSize(record) + 1)
             /\ estimatesInARow' <= 99 ]_vars

\* The 199th record of a batch: the 99th insertion in a row on the estimate,
\* after the exact recomputation at 100 records.
RecalibrationPolicyWitness ==
    /\ Returned("addProduct")
    /\ Len(currentBatch) = 199
    /\ estimatesInARow = 99

\* The summary lines that show a quotient.
AverageLines == {"avgBatchSize", "avgProductsPerBatch", "overallUtilization"}

\* C18. The summary never divides by zero: flush shows the per-batch averages
\* and the overall utilization only when totalBatchesSent > 0 and the
\* full-batch average only when fullBatchCount > 0; it reports that no
\* batches were sent exactly when no batch was ever handed to the service in
\* the batcher's lifetime, and such a flush calls the service zero times.
SummaryNeverDividesByZero ==
    Returned("flush") =>
      /\ \A line \in AverageLines :
            line \in DOMAIN summary <=> totalBatchesSent > 0
      /\ "fullBatchAvg" \in DOMAIN summary <=> fullBatchCount > 0
      /\ \A line \in (AverageLines \cup {"fullBatchAvg"}) \cap DOMAIN summary :
            summary[line].den # 0
      /\ "noBatchesSent" \in DOMAIN summary <=> calls = <<>>
      /\ "noBatchesSent" \in DOMAIN summary
            => lastOp.sinkCalls = 0 /\ totalBatchesSent = 0

\* A flush that reports batches none of which is full.
SummaryNeverDividesByZeroWitness ==
    /\ Returned("flush")
    /\ totalBatchesSent > 0
    /\ fullBatchCount = 0
    /\ "avgBatchSize" \in DOMAIN summary
    /\ "fullBatchAvg" \notin DOMAIN summary

\* C19. The running size never drifts: whenever the current batch is not
\* empty, currentBatchSize is the exact serialized size of the batch (2 + the
\* record sizes + number of records - 1), also after insertions sized by the
\* estimate; whenever it is empty, at creation or after a flush,
\* currentBatchSize is 0 and not the 2 bytes of an empty array.
NoDrift ==
    /\ currentBatch # <<>> =>
          /\ currentBatchSize = ExactSize(currentBatch)
          /\ currentBatchSize = calculateBatchSize(currentBatch)
    /\ currentBatch = <<>> =>
          /\ currentBatchSize = 0
          /\ currentBatchSize # calculateBatchSize(currentBatch)

\* A fifth record with a two-byte character and an escaped one, sized by the
\* second estimate in a row.
NoDriftWitness ==
    /\ Returned("addProduct")
    /\ Len(currentBatch) = 5
    /\ estimatesInARow = 2
    /\ currentBatch[5] = <<EAcute, BS>>

\* How many times product occurs in products.
Occurrences(product, products) ==
    Cardinality({ i \in DOMAIN products : products[i] = product })

\* C20. No duplicate emission or double counting after a failure of the
\* service: when a call of the service may throw and the caller goes on, no
\* product is handed to the service in more than one invocation, no product
\* passed to addProduct is missing from the payloads after a flush that
\* returned, and totalProductsProcessed never exceeds the number of products
\* passed to addProduct.
NoDuplicateAfterFailure ==
    /\ \A product \in Products :
          Occurrences(product, Flatten(SentBatches))
             <= Occurrences(product, added)
    /\ Returned("flush") =>
          \A product \in Products :
             Occurrences(product, added)
                <= Occurrences(product, Flatten(SentBatches))
    /\ totalProductsProcessed <= Len(added)

====
